---- MODULE Spec2Model ----
(***************************************************************************)
(* Model of library_management_system.py: class Book (a list-backed book  *)
(* store persisted as a JSON array in books.json) and the menu loop of    *)
(* main().                                                                *)
(*                                                                        *)
(* Python strings are modelled as sequences of one-character strings, so  *)
(* that strip(), endswith(), os.path.basename(), the JSON string escapes  *)
(* and the JSON parser are computed character by character.               *)
(***************************************************************************)
EXTENDS Integers, Sequences, FiniteSets, TLC

VARIABLES
    pc,             \* position of the program: "init", "menu", "reading", "exited", "crashed"
    choice,         \* main(): the last value of `choice` read at the menu
    books_store,    \* Book.books_store
    books_json,     \* the file books.json (Book.filename) on disk
    books_csv,      \* the file books.csv written by export_as_csv
    books_dir,      \* the files under books/ (Book.books_directory): path -> document
    txt_files,      \* the <title>.txt files written by read_book: title -> text
    reading,        \* read_book: the local variables of the PDF page loop
    ocr_calls,      \* the pages handed to pytesseract.image_to_string by the running read_book
    last_call       \* the values typed at the prompts of the last add, edit or remove,
                    \* and the store that call found (kept by the runs of SpecOps only)

vars == << pc, choice, books_store, books_json, books_csv, books_dir, txt_files,
           reading, ocr_calls, last_call >>

-----------------------------------------------------------------------------
(* Bounds of the model. *)

\* The longest store the model explores: add_books is taken only below it.
MaxBooks == 2

\* The longest PDF (in pages) the model explores.
MaxPages == 2

-----------------------------------------------------------------------------
(* Characters and string helpers. *)

Quote == "\""
Backslash == "\\"
Newline == "\n"
Space == " "
\* A byte that is not valid in the encoding open(filename, 'r') decodes with.
BadByte == "<0xFF>"

\* str.strip() with no argument strips these.
Whitespace == {Space, Newline, "\t"}

RECURSIVE LStrip(_)
LStrip(s) ==
    IF s = << >> THEN << >>
    ELSE IF Head(s) \in Whitespace THEN LStrip(Tail(s))
    ELSE s

RECURSIVE RStrip(_)
RStrip(s) ==
    IF s = << >> THEN << >>
    ELSE IF s[Len(s)] \in Whitespace THEN RStrip(SubSeq(s, 1, Len(s) - 1))
    ELSE s

\* str.strip()
Strip(s) == RStrip(LStrip(s))

\* str.endswith(suffix)
EndsWith(s, suffix) ==
    /\ Len(s) >= Len(suffix)
    /\ SubSeq(s, Len(s) - Len(suffix) + 1, Len(s)) = suffix

StartsWith(s, prefix) ==
    /\ Len(s) >= Len(prefix)
    /\ SubSeq(s, 1, Len(prefix)) = prefix

\* os.path.basename(p): what follows the last "/" of p.
RECURSIVE Basename(_)
Basename(p) ==
    IF p = << >> THEN << >>
    ELSE IF p[Len(p)] = "/" THEN << >>
    ELSE Append(Basename(SubSeq(p, 1, Len(p) - 1)), p[Len(p)])

\* os.path.join(directory, name) for a relative name.
PathJoin(directory, name) == directory \o << "/" >> \o name

RECURSIVE Concat(_)
Concat(ss) == IF ss = << >> THEN << >> ELSE Head(ss) \o Concat(Tail(ss))

-----------------------------------------------------------------------------
(* JSON: json.dump(books_store, b, indent=4) and json.load(b).             *)

\* The keys of a book record, in the order add_books inserts them.
BookFields == << "title", "author", "year", "file_path" >>

KeyChars(field) ==
    CASE field = "title" -> << "t", "i", "t", "l", "e" >>
      [] field = "author" -> << "a", "u", "t", "h", "o", "r" >>
      [] field = "year" -> << "y", "e", "a", "r" >>
      [] field = "file_path" -> << "f", "i", "l", "e", "_", "p", "a", "t", "h" >>

Indent(n) == [i \in 1..(4 * n) |-> Space]

\* An encoder that writes every character as it is.
EscapeChar_Raw(c) == << c >>

\* The JSON encoder's escapes: '"' -> '\"', '\' -> '\\', newline -> '\n', tab -> '\t'.
EscapeChar(c) ==
    IF c = Quote THEN << Backslash, Quote >>
    ELSE IF c = Backslash THEN << Backslash, Backslash >>
    ELSE IF c = Newline THEN << Backslash, "n" >>
    ELSE IF c = "\t" THEN << Backslash, "t" >>
    ELSE << c >>

RECURSIVE EscapeChars(_)
EscapeChars(s) ==
    IF s = << >> THEN << >> ELSE EscapeChar(Head(s)) \o EscapeChars(Tail(s))

EncodeString(s) == << Quote >> \o EscapeChars(s) \o << Quote >>

RECURSIVE EncodeMembers(_, _)
EncodeMembers(book, fields) ==
    IF fields = << >> THEN << >>
    ELSE Indent(2) \o EncodeString(KeyChars(Head(fields))) \o << ":", Space >>
           \o EncodeString(book[Head(fields)])
           \o (IF Len(fields) > 1 THEN << ",", Newline >> ELSE << Newline >>)
           \o EncodeMembers(book, Tail(fields))

EncodeBook(book) ==
    Indent(1) \o << "{", Newline >> \o EncodeMembers(book, BookFields)
              \o Indent(1) \o << "}" >>

RECURSIVE EncodeItems(_)
EncodeItems(store) ==
    IF store = << >> THEN << >>
    ELSE EncodeBook(Head(store))
           \o (IF Len(store) > 1 THEN << ",", Newline >> ELSE << Newline >>)
           \o EncodeItems(Tail(store))

\* json.dump(store, b, indent=4)
JsonDump(store) ==
    IF store = << >> THEN << "[", "]" >>
    ELSE << "[", Newline >> \o EncodeItems(store) \o << "]" >>

\* Parse results: [ok |-> TRUE, val |-> v, next |-> i] or Fail.
Fail == [ok |-> FALSE, val |-> << >>, next |-> 0]
Parsed(v, i) == [ok |-> TRUE, val |-> v, next |-> i]

JsonWhitespace == {Space, Newline, "\t", "\r"}

RECURSIVE SkipWs(_, _)
SkipWs(s, i) ==
    IF i <= Len(s) /\ s[i] \in JsonWhitespace THEN SkipWs(s, i + 1) ELSE i

\* The characters of a string literal whose opening quote is before position i;
\* a raw newline or tab inside a literal is an error, as in json.loads.
RECURSIVE ScanString(_, _, _)
ScanString(s, i, acc) ==
    IF i > Len(s) THEN Fail
    ELSE IF s[i] = Quote THEN Parsed(acc, i + 1)
    ELSE IF s[i] = Backslash THEN
        IF i + 1 > Len(s) THEN Fail
        ELSE IF s[i + 1] = Quote THEN ScanString(s, i + 2, Append(acc, Quote))
        ELSE IF s[i + 1] = Backslash THEN ScanString(s, i + 2, Append(acc, Backslash))
        ELSE IF s[i + 1] = "n" THEN ScanString(s, i + 2, Append(acc, Newline))
        ELSE IF s[i + 1] = "t" THEN ScanString(s, i + 2, Append(acc, "\t"))
        ELSE Fail
    ELSE IF s[i] \in {Newline, "\t"} THEN Fail
    ELSE ScanString(s, i + 1, Append(acc, s[i]))

ParseString(s, i) ==
    IF i <= Len(s) /\ s[i] = Quote THEN ScanString(s, i + 1, << >>) ELSE Fail

FieldOf(key) == { f \in {"title", "author", "year", "file_path"} : KeyChars(f) = key }

\* The members of an object after "{" or ","; obj holds the members read so far.
RECURSIVE ParseMembers(_, _, _)
ParseMembers(s, i, obj) ==
    LET k == ParseString(s, SkipWs(s, i)) IN
    IF ~k.ok \/ FieldOf(k.val) = {} THEN Fail
    ELSE
        LET c == SkipWs(s, k.next) IN
        IF c > Len(s) \/ s[c] # ":" THEN Fail
        ELSE
            LET v == ParseString(s, SkipWs(s, c + 1)) IN
            IF ~v.ok THEN Fail
            ELSE
                LET field == CHOOSE f \in FieldOf(k.val) : TRUE
                    obj2 == (field :> v.val) @@ obj
                    e == SkipWs(s, v.next)
                IN  IF e > Len(s) THEN Fail
                    ELSE IF s[e] = "}" THEN Parsed(obj2, e + 1)
                    ELSE IF s[e] = "," THEN ParseMembers(s, e + 1, obj2)
                    ELSE Fail

ParseObject(s, i) ==
    IF i > Len(s) \/ s[i] # "{" THEN Fail
    ELSE
        LET j == SkipWs(s, i + 1) IN
        IF j <= Len(s) /\ s[j] = "}" THEN Parsed(<< >>, j + 1)
        ELSE ParseMembers(s, i + 1, << >>)

\* The items of an array after "[" or ","; acc holds the items read so far.
RECURSIVE ParseItems(_, _, _)
ParseItems(s, i, acc) ==
    LET o == ParseObject(s, SkipWs(s, i)) IN
    IF ~o.ok THEN Fail
    ELSE
        LET e == SkipWs(s, o.next) IN
        IF e > Len(s) THEN Fail
        ELSE IF s[e] = "]" THEN Parsed(Append(acc, o.val), e + 1)
        ELSE IF s[e] = "," THEN ParseItems(s, e + 1, Append(acc, o.val))
        ELSE Fail

ParseArray(s, i) ==
    IF i > Len(s) \/ s[i] # "[" THEN Fail
    ELSE
        LET j == SkipWs(s, i + 1) IN
        IF j <= Len(s) /\ s[j] = "]" THEN Parsed(<< >>, j + 1)
        ELSE ParseItems(s, i + 1, << >>)

\* json.loads(text) for the documents this program writes: a JSON array of
\* objects whose members are the four fields of a book with string values
\* (with the escapes the encoder above writes), and nothing but whitespace
\* after it. Any other text is taken as not being JSON.
JsonLoads(text) ==
    LET a == ParseArray(text, SkipWs(text, 1)) IN
    IF a.ok /\ SkipWs(text, a.next) = Len(text) + 1 THEN a ELSE Fail

\* f.read() of a file opened in text mode: fails on a byte the encoding rejects.
Decodable(data) == \A i \in 1..Len(data) : data[i] # BadByte

-----------------------------------------------------------------------------
(* Files and documents. *)

NoFile == [exists |-> FALSE, data |-> << >>]
File(data) == [exists |-> TRUE, data |-> data]

Str_books == << "b", "o", "o", "k", "s" >>
Ext_pdf == << ".", "p", "d", "f" >>
Ext_docx == << ".", "d", "o", "c", "x" >>

Book(title, author, year, file_path) ==
    [title |-> title, author |-> author, year |-> year, file_path |-> file_path]

UrlPdf == << "h", "t", "t", "p", ":", "/", "/", "h", "/", "a" >> \o Ext_pdf
UrlDocx == << "h", "t", "t", "p", ":", "/", "/", "h", "/", "b" >> \o Ext_docx
\* A valid URL that ends with "/": its basename is empty.
UrlDir == << "h", "t", "t", "p", ":", "/", "/", "h", "/" >>
UrlBad == << "h", "/", "a" >> \o Ext_pdf

\* validators.url(book_url), on the URLs of the model.
ValidUrl(url) == StartsWith(url, << "h", "t", "t", "p", ":", "/", "/" >>) /\ Len(url) > 7

PdfDoc(pages) == [kind |-> "pdf", parts |-> pages]
DocxDoc(paragraphs) == [kind |-> "docx", parts |-> paragraphs]
Page(text, ocr) == [text |-> text, ocr |-> ocr]

\* response.content for each URL: a PDF with a text page and a scanned page,
\* and a DOCX with two paragraphs.
Server(url) ==
    IF EndsWith(url, Ext_docx)
    THEN DocxDoc(<< << "p" >>, << "q" >> >>)
    ELSE PdfDoc(<< Page(<< "h", "i" >>, << >>), Page(<< Newline >>, << "o" >>) >>)

-----------------------------------------------------------------------------
(* The methods of class Book, as functions of the store. *)

\* The index of the first record with the title, 0 when there is none:
\* `for i, book in enumerate(self.books_store): if title == book["title"]`.
RECURSIVE FindFrom(_, _, _)
FindFrom(store, title, i) ==
    IF i > Len(store) THEN 0
    ELSE IF store[i].title = title THEN i
    ELSE FindFrom(store, title, i + 1)

FindBook(store, title) == FindFrom(store, title, 1)

\* add_books, lines 60-66.
AddBook(store, title, author, year, file_name) ==
    Append(store, Book(title, author, year, file_name))

\* del self.books_store[i]
DeleteAt(store, i) == SubSeq(store, 1, i - 1) \o SubSeq(store, i + 1, Len(store))

\* A remove_book that drops every record with the title.
RemoveBook_EveryMatch(store, title) ==
    SelectSeq(store, LAMBDA book : book.title # title)

\* remove_book, lines 153-157.
RemoveBook(store, title) ==
    LET i == FindBook(store, title) IN
    IF i = 0 THEN store ELSE DeleteAt(store, i)

\* input(...).strip() or current
Entered(input, current) == IF Strip(input) # << >> THEN Strip(input) ELSE current

\* edit_book, lines 119-131, on the record found.
EditRecord(book, in_title, in_author, in_year, in_path) ==
    LET new_title == Entered(in_title, book.title)
        new_author == Entered(in_author, book.author)
        new_publication_date == Entered(in_year, book.year)
        new_file_path == Entered(in_path, book.file_path)
    IN  Book(IF new_title # book.title THEN new_title ELSE book.title,
             IF new_author # book.author THEN new_author ELSE book.author,
             IF new_publication_date # book.year THEN new_publication_date ELSE book.year,
             IF new_file_path # book.file_path THEN new_file_path ELSE book.file_path)

\* An edit_book without its `return`: every record with the title is edited.
EditBook_EveryMatch(store, title, in_title, in_author, in_year, in_path) ==
    [i \in 1..Len(store) |->
        IF store[i].title = title
        THEN [title |-> IF Strip(in_title) # << >> THEN Strip(in_title) ELSE store[i].title,
              author |-> IF Strip(in_author) # << >> THEN Strip(in_author) ELSE store[i].author,
              year |-> IF Strip(in_year) # << >> THEN Strip(in_year) ELSE store[i].year,
              file_path |-> IF Strip(in_path) # << >> THEN Strip(in_path)
                            ELSE store[i].file_path]
        ELSE store[i]]

\* edit_book, lines 117-134.
EditBook(store, title, in_title, in_author, in_year, in_path) ==
    LET i == FindBook(store, title) IN
    IF i = 0 THEN store
    ELSE [store EXCEPT ![i] = EditRecord(store[i], in_title, in_author, in_year, in_path)]

\* export_as_csv, lines 166-169: the header row, then one row per record.
CsvRows(books) ==
    << << KeyChars("title"), KeyChars("author"), KeyChars("year"), KeyChars("file_path") >> >>
      \o [i \in 1..Len(books) |->
            << books[i].title, books[i].author, books[i].year, books[i].file_path >>]

\* `if not text:` in place of `if not text.strip():`.
NeedsOcr_NoStrip(page) == page.text = << >>

\* read_book, lines 83-88: the text one page adds, and whether OCR ran for it.
NeedsOcr(page) == Strip(page.text) = << >>
PageText(page) == IF NeedsOcr(page) THEN page.ocr ELSE page.text

\* "\n".join(paragraphs)
RECURSIVE JoinLines(_)
JoinLines(ps) ==
    IF ps = << >> THEN << >>
    ELSE IF Len(ps) = 1 THEN Head(ps)
    ELSE Head(ps) \o << Newline >> \o JoinLines(Tail(ps))

NotReading == [title |-> << >>, pdf_file |-> << >>, page_num |-> 0, extracted_text |-> << >>]

Call(op, title, new_title, author, year, path, status, store) ==
    [op |-> op, title |-> title, new_title |-> new_title, author |-> author,
     year |-> year, path |-> path, status |-> status, store |-> store]
NoCall == Call("", << >>, << >>, << >>, << >>, << >>, 0, << >>)

-----------------------------------------------------------------------------
(* Inputs typed at the prompts.                                            *)

T_A == << "A" >>
T_B == << "B" >>
T_QB == << Quote, "B" >>
A_x == << "x" >>
A_y == << "y", Backslash >>
Y_2 == << "2" >>

\* The runs of the whole program use these.
Titles == {T_A, T_B}
Authors == {A_x}
Years == {Y_2}
Urls == {UrlPdf, UrlBad}
StatusCodes == {200, 404}
EditInputs == {<< >>}
ReadTitles == {T_A}

\* The runs that add, edit and remove only use these: every field takes two
\* values, among them an empty string and strings with '"' and '\'.
RichTitles == {T_A, T_QB}
RichAuthors == {A_x, A_y}
RichYears == {<< >>, Y_2}
RichUrls == {UrlPdf, UrlDocx, UrlDir, UrlBad}
Padded(s) == << Space >> \o s \o << Space >>
Blank == << Space, "\t" >>
OtherPath == << "c", ".", "t", "x", "t" >>
PathPdf == PathJoin(Str_books, Basename(UrlPdf))
PathDocx == PathJoin(Str_books, Basename(UrlDocx))
EditTitles == {<< >>, Blank, Padded(T_QB)}
EditAuthors == {<< >>, Blank, Padded(A_y)}
EditYears == {<< >>, Blank, Padded(Y_2)}
EditPaths == {<< >>, Blank, Padded(PathDocx)}


RichBooks ==
    { Book(t, a, y, p) : t \in RichTitles, a \in RichAuthors, y \in RichYears,
                         p \in {PathPdf, PathDocx} }

StoresOver(books) == UNION { [1..n -> books] : n \in 0..MaxBooks }

\* books.json as a run may find it: absent, bytes that are not text, text that
\* is not JSON, or the array an earlier run saved.
InitialFiles ==
    { NoFile,
      File(<< BadByte >>),
      File(<< "[", "{" >>),
      File(JsonDump(<< Book(T_A, A_x, Y_2, PathPdf) >>)) }

PageTexts == {<< >>, << Space, Newline >>, << "h", "i" >>, << Space, "a" >>}
OcrTexts == {<< >>, << "o" >>}
Pages == { Page(t, o) : t \in PageTexts, o \in OcrTexts }
Pdfs == UNION { [1..n -> Pages] : n \in 0..MaxPages }

-----------------------------------------------------------------------------
(* The state machine.                                                      *)

\* main() is about to run library = Book(): __init__ has set books_store = []
\* and is about to call load_books on the books.json it finds.
Init ==
    /\ pc = "init"
    /\ choice = ""
    /\ books_store = << >>
    /\ books_json \in InitialFiles
    /\ books_csv = NoFile
    /\ books_dir = << >>
    /\ txt_files = << >>
    /\ reading = NotReading
    /\ ocr_calls = << >>
    /\ last_call = NoCall

\* load_books: what it leaves in books_store, and whether an error escapes it.
LoadBooks(file, store) ==
    IF ~file.exists THEN [raised |-> FALSE, store |-> << >>]
    ELSE IF ~Decodable(file.data) THEN [raised |-> TRUE, store |-> store]
    ELSE LET r == JsonLoads(file.data) IN
         IF r.ok THEN [raised |-> FALSE, store |-> r.val]
         ELSE [raised |-> FALSE, store |-> << >>]

\* Book.__init__ (called by main): books_store = [] and load_books().
construct ==
    /\ pc = "init"
    /\ LET r == LoadBooks(books_json, << >>) IN
         /\ books_store' = r.store
         /\ pc' = IF r.raised THEN "crashed" ELSE "menu"
    /\ UNCHANGED << choice, books_json, books_csv, books_dir, txt_files, reading, ocr_calls >>

\* choice "1"
add_books(title, author, publication_date, book_url, status_code) ==
    /\ pc = "menu"
    /\ Len(books_store) < MaxBooks
    /\ choice' = "1"
    /\ IF ~ValidUrl(book_url) \/ status_code # 200
       THEN UNCHANGED << pc, books_store, books_dir >>
       ELSE LET file_name == PathJoin(Str_books, Basename(book_url)) IN
            IF Basename(book_url) = << >>
            THEN \* open("books/", 'wb') raises IsADirectoryError
                 /\ pc' = "crashed"
                 /\ UNCHANGED << books_store, books_dir >>
            ELSE /\ books_dir' = (file_name :> Server(book_url)) @@ books_dir
                 /\ books_store' = AddBook(books_store, title, author, publication_date, file_name)
                 /\ pc' = pc
    /\ UNCHANGED << books_json, books_csv, txt_files, reading, ocr_calls >>

\* choice "2"
edit_book(edit, in_title, in_author, in_year, in_path) ==
    /\ pc = "menu"
    /\ choice' = "2"
    /\ books_store' = EditBook(books_store, edit, in_title, in_author, in_year, in_path)
    /\ UNCHANGED << pc, books_json, books_csv, books_dir, txt_files, reading, ocr_calls >>

\* choice "3"
view_books ==
    /\ pc = "menu"
    /\ choice' = "3"
    /\ UNCHANGED << pc, books_store, books_json, books_csv, books_dir, txt_files,
                    reading, ocr_calls >>

\* choice "4"
remove_book(title) ==
    /\ pc = "menu"
    /\ choice' = "4"
    /\ books_store' = RemoveBook(books_store, title)
    /\ UNCHANGED << pc, books_json, books_csv, books_dir, txt_files, reading, ocr_calls >>

\* choice "5"
save_books ==
    /\ pc = "menu"
    /\ choice' = "5"
    /\ books_json' = File(JsonDump(books_store))
    /\ UNCHANGED << pc, books_store, books_csv, books_dir, txt_files, reading, ocr_calls >>

\* An export_as_csv that writes the rows of self.books_store.
export_as_csv_FromMemory ==
    /\ pc = "menu"
    /\ choice' = "6"
    /\ books_csv' = IF books_json.exists THEN File([i \in 1..(Len(books_store) + 1) |->
                        IF i = 1
                        THEN << << "t", "i", "t", "l", "e" >>, << "a", "u", "t", "h", "o", "r" >>,
                                << "y", "e", "a", "r" >>,
                                << "f", "i", "l", "e", "_", "p", "a", "t", "h" >> >>
                        ELSE << books_store[i - 1].title, books_store[i - 1].author,
                                books_store[i - 1].year, books_store[i - 1].file_path >>])
                     ELSE books_csv
    /\ pc' = IF books_json.exists THEN pc ELSE "crashed"
    /\ UNCHANGED << books_store, books_json, books_dir, txt_files, reading, ocr_calls >>

\* choice "6": json.load of books.json, then the CSV writer. FileNotFoundError,
\* UnicodeDecodeError and JSONDecodeError are not caught: they end the program.
export_as_csv ==
    /\ pc = "menu"
    /\ choice' = "6"
    /\ LET loaded == IF books_json.exists /\ Decodable(books_json.data)
                     THEN JsonLoads(books_json.data)
                     ELSE Fail
       IN  /\ books_csv' = IF loaded.ok THEN File(CsvRows(loaded.val)) ELSE books_csv
           /\ pc' = IF loaded.ok THEN pc ELSE "crashed"
    /\ UNCHANGED << books_store, books_json, books_dir, txt_files, reading, ocr_calls >>

\* choice "7": read_book up to the page loop (PDF) or to the end (anything else).
read_book(title) ==
    /\ pc = "menu"
    /\ choice' = "7"
    /\ LET i == FindBook(books_store, title) IN
       IF i = 0
       THEN UNCHANGED << pc, txt_files, reading, ocr_calls >>
       ELSE LET file_path == books_store[i].file_path
                found == file_path \in DOMAIN books_dir
            IN  IF EndsWith(file_path, Ext_pdf) /\ found /\ books_dir[file_path].kind = "pdf"
                THEN /\ pc' = "reading"
                     /\ reading' = [title |-> title,
                                    pdf_file |-> books_dir[file_path].parts,
                                    page_num |-> 0,
                                    extracted_text |-> << >>]
                     /\ ocr_calls' = << >>
                     /\ UNCHANGED txt_files
                ELSE IF ~EndsWith(file_path, Ext_pdf) /\ EndsWith(file_path, Ext_docx)
                        /\ found /\ books_dir[file_path].kind = "docx"
                THEN /\ txt_files' = (title :> JoinLines(books_dir[file_path].parts)) @@ txt_files
                     /\ UNCHANGED << pc, reading, ocr_calls >>
                ELSE \* unsupported format, or an exception that read_book catches
                     UNCHANGED << pc, txt_files, reading, ocr_calls >>
    /\ UNCHANGED << books_store, books_json, books_csv, books_dir >>

\* One iteration of `for page_num in range(num_pages)`; ocr_ok tells whether
\* pytesseract returns (an exception ends read_book in its except clause).
read_page(ocr_ok) ==
    /\ pc = "reading"
    /\ reading.page_num < Len(reading.pdf_file)
    /\ LET page == reading.pdf_file[reading.page_num + 1] IN
       /\ ocr_calls' = IF NeedsOcr(page) THEN Append(ocr_calls, reading.page_num + 1)
                       ELSE ocr_calls
       /\ IF NeedsOcr(page) /\ ~ocr_ok
          THEN /\ pc' = "menu"
               /\ reading' = NotReading
          ELSE /\ pc' = pc
               /\ reading' = [reading EXCEPT
                                !.page_num = @ + 1,
                                !.extracted_text = @ \o PageText(page)]
    /\ UNCHANGED << choice, books_store, books_json, books_csv, books_dir, txt_files >>

\* After the loop: print, write <title>.txt, return to the menu.
read_finish ==
    /\ pc = "reading"
    /\ reading.page_num = Len(reading.pdf_file)
    /\ txt_files' = (reading.title :> reading.extracted_text) @@ txt_files
    /\ pc' = "menu"
    /\ reading' = NotReading
    /\ ocr_calls' = << >>
    /\ UNCHANGED << choice, books_store, books_json, books_csv, books_dir >>

\* A choice "8" that breaks without save_books().
exit_NoSave ==
    /\ pc = "menu"
    /\ choice' = "8"
    /\ pc' = "exited"
    /\ UNCHANGED << books_store, books_json, books_csv, books_dir, txt_files, reading,
                    ocr_calls >>

\* choice "8": save_books(), then break.
exit ==
    /\ pc = "menu"
    /\ choice' = "8"
    /\ books_json' = File(JsonDump(books_store))
    /\ pc' = "exited"
    /\ UNCHANGED << books_store, books_csv, books_dir, txt_files, reading, ocr_calls >>

\* Any other choice.
invalid_choice ==
    /\ pc = "menu"
    /\ choice' = "other"
    /\ UNCHANGED << pc, books_store, books_json, books_csv, books_dir, txt_files,
                    reading, ocr_calls >>

Next ==
    \/ construct /\ UNCHANGED last_call
    \/ /\ \E t \in Titles, a \in Authors, y \in Years, u \in Urls, c \in StatusCodes :
             add_books(t, a, y, u, c)
       /\ UNCHANGED last_call
    \/ /\ \E t \in Titles, nt \in EditInputs \cup {Padded(T_B)}, e \in EditInputs :
             edit_book(t, nt, e, e, e)
       /\ UNCHANGED last_call
    \/ view_books /\ UNCHANGED last_call
    \/ (\E t \in Titles : remove_book(t)) /\ UNCHANGED last_call
    \/ save_books /\ UNCHANGED last_call
    \/ export_as_csv /\ UNCHANGED last_call
    \/ (\E t \in ReadTitles : read_book(t)) /\ UNCHANGED last_call
    \/ (\E ok \in BOOLEAN : read_page(ok)) /\ UNCHANGED last_call
    \/ read_finish /\ UNCHANGED last_call
    \/ exit /\ UNCHANGED last_call
    \/ invalid_choice /\ UNCHANGED last_call

Spec == Init /\ [][Next]_vars

-----------------------------------------------------------------------------
(* One call of add_books, edit_book or remove_book on every store over the *)
(* richer records, with the richer inputs; last_call keeps what was typed  *)
(* and the store the call found.                                           *)

InitOps ==
    /\ pc = "menu"
    /\ choice = ""
    /\ books_store \in StoresOver(RichBooks)
    /\ books_json = NoFile
    /\ books_csv = NoFile
    /\ books_dir = << >>
    /\ txt_files = << >>
    /\ reading = NotReading
    /\ ocr_calls = << >>
    /\ last_call = NoCall

NextOps ==
    \/ \E t \in RichTitles, a \in RichAuthors, y \in RichYears, u \in RichUrls,
          c \in StatusCodes :
          /\ last_call = NoCall
          /\ add_books(t, a, y, u, c)
          /\ last_call' = Call("add_books", t, << >>, a, y, u, c, books_store)
    \/ \E t \in RichTitles, nt \in EditTitles, na \in EditAuthors, ny \in EditYears,
          np \in EditPaths :
          /\ last_call = NoCall
          /\ edit_book(t, nt, na, ny, np)
          /\ last_call' = Call("edit_book", t, nt, na, ny, np, 0, books_store)
    \/ \E t \in RichTitles :
          /\ last_call = NoCall
          /\ remove_book(t)
          /\ last_call' = Call("remove_book", t, << >>, << >>, << >>, << >>, 0, books_store)

SpecOps == InitOps /\ [][NextOps]_vars

-----------------------------------------------------------------------------
(* save_books followed by load_books, on every store over the richer       *)
(* records.                                                                *)

InitJson ==
    /\ pc = "menu"
    /\ choice = ""
    /\ books_store \in StoresOver(RichBooks)
    /\ books_json = NoFile
    /\ books_csv = NoFile
    /\ books_dir = << >>
    /\ txt_files = << >>
    /\ reading = NotReading
    /\ ocr_calls = << >>
    /\ last_call = NoCall

\* library.load_books() called on the object that has just saved.
load_books ==
    /\ pc = "menu"
    /\ choice = "5"
    /\ choice' = "load"
    /\ LET r == LoadBooks(books_json, books_store) IN
         /\ books_store' = r.store
         /\ pc' = IF r.raised THEN "crashed" ELSE pc
    /\ UNCHANGED << books_json, books_csv, books_dir, txt_files, reading, ocr_calls >>

NextJson ==
    \/ save_books /\ UNCHANGED last_call
    \/ load_books /\ UNCHANGED last_call

SpecJson == InitJson /\ [][NextJson]_vars

-----------------------------------------------------------------------------
(* read_book on every PDF of up to MaxPages pages, on a DOCX, on a file of *)
(* another format and on a file that is not there.                         *)

ReadStores ==
    { << Book(T_A, A_x, Y_2, p) >> : p \in {PathPdf, PathDocx, OtherPath} }

ReadDirs ==
    { (PathPdf :> PdfDoc(pages)) : pages \in Pdfs }
      \cup { (PathDocx :> Server(UrlDocx)), << >> }

InitRead ==
    /\ pc = "menu"
    /\ choice = ""
    /\ books_store \in ReadStores
    /\ books_json = NoFile
    /\ books_csv = NoFile
    /\ books_dir \in ReadDirs
    /\ txt_files = << >>
    /\ reading = NotReading
    /\ ocr_calls = << >>
    /\ last_call = NoCall

NextRead ==
    \/ (\E t \in Titles : read_book(t)) /\ UNCHANGED last_call
    \/ (\E ok \in BOOLEAN : read_page(ok)) /\ UNCHANGED last_call
    \/ read_finish /\ UNCHANGED last_call

SpecRead == InitRead /\ [][NextRead]_vars

-----------------------------------------------------------------------------
(* Properties.                                                             *)

\* What a reader of books.json finds in it: the array, when it holds one.
Persisted ==
    IF books_json.exists /\ Decodable(books_json.data)
    THEN JsonLoads(books_json.data)
    ELSE Fail

MatchesOf(store, title) == { i \in 1..Len(store) : store[i].title = title }
FirstMatch(store, title) ==
    CHOOSE i \in MatchesOf(store, title) : \A j \in MatchesOf(store, title) : i <= j

\* C1: no two records of books_store have the same title, in every state a
\* run of the program reaches.
C1_UniqueTitles ==
    \A i, j \in 1..Len(books_store) :
        i # j => books_store[i].title # books_store[j].title

\* C2: load_books right after save_books leaves in books_store the store that
\* was saved: the same records in the same order.
C2_SaveLoadRoundTrip ==
    [][(choice = "5" /\ choice' = "load")
          => (pc' = "menu" /\ books_store' = books_store)]_vars

C2_Witness ==
    /\ choice = "load"
    /\ Len(books_store) = 2
    /\ books_store[1].title = T_QB
    /\ books_store[2].author = A_y
    /\ books_store[2].year = << >>

HasTextLayer(page) == \E j \in 1..Len(page.text) : page.text[j] \notin Whitespace
Contribution(page) == IF HasTextLayer(page) THEN page.text ELSE page.ocr
ExpectedText(pages, n) == Concat([i \in 1..n |-> Contribution(pages[i])])

\* C3: while read_book walks a PDF, the text extracted so far is the
\* concatenation, in page order, of each page's text layer when it has
\* non-whitespace text and of its OCR result otherwise; OCR has been invoked
\* for exactly the pages without a text layer; and the text written to
\* <title>.txt is that concatenation over all the pages.
C3_OcrFallback ==
    /\ pc = "reading" =>
         /\ reading.extracted_text = ExpectedText(reading.pdf_file, reading.page_num)
         /\ \A k \in 1..Len(ocr_calls) :
               /\ ocr_calls[k] \in 1..reading.page_num
               /\ ~HasTextLayer(reading.pdf_file[ocr_calls[k]])
         /\ \A i \in 1..reading.page_num :
               ~HasTextLayer(reading.pdf_file[i])
                  => \E k \in 1..Len(ocr_calls) : ocr_calls[k] = i
    /\ \A t \in DOMAIN txt_files :
         LET file_path == books_store[FirstMatch(books_store, t)].file_path IN
         EndsWith(file_path, Ext_pdf)
            => txt_files[t] = ExpectedText(books_dir[file_path].parts,
                                           Len(books_dir[file_path].parts))

C3_Witness ==
    /\ T_A \in DOMAIN txt_files
    /\ PathPdf \in DOMAIN books_dir
    /\ Len(books_dir[PathPdf].parts) = 2
    /\ books_dir[PathPdf].parts[1].text = << Space, Newline >>
    /\ books_dir[PathPdf].parts[1].ocr = << "o" >>
    /\ books_dir[PathPdf].parts[2].text = << Space, "a" >>
    /\ txt_files[T_A] = << "o", Space, "a" >>

RemovePost(old, new, title) ==
    IF MatchesOf(old, title) = {} THEN new = old
    ELSE LET k == FirstMatch(old, title) IN
         /\ Len(new) = Len(old) - 1
         /\ \A j \in 1..(k - 1) : new[j] = old[j]
         /\ \A j \in k..Len(new) : new[j] = old[j + 1]

\* C4: remove_book deletes exactly the first record with the given title,
\* the other records keep their content and order; with no such record
\* books_store is unchanged.
C4_RemoveFirstMatch ==
    last_call.op = "remove_book"
       => RemovePost(last_call.store, books_store, last_call.title)

C4_Witness ==
    /\ last_call.op = "remove_book"
    /\ last_call.title = T_A
    /\ last_call.store = << Book(T_A, A_x, Y_2, PathPdf), Book(T_A, A_y, << >>, PathDocx) >>
    /\ books_store = << Book(T_A, A_y, << >>, PathDocx) >>

\* C5: the load_books of the constructor never lets an error escape: with
\* books.json absent or not valid JSON the store is empty, with a JSON array
\* in it the store is that array.
C5_LoadNeverFails ==
    (pc # "init" /\ choice = "") =>
        /\ pc = "menu"
        /\ books_store = IF Persisted.ok THEN Persisted.val ELSE << >>

MarkedRead(store) ==
    \E i \in 1..Len(store) : "read" \in DOMAIN store[i] /\ store[i]["read"] = TRUE

\* C6: at the menu, with a book in the store, one of the operations that
\* write books_store marks a book as read.
C6_MarkReadOffered ==
    (pc = "menu" /\ books_store # << >> /\ last_call = NoCall)
       => ENABLED (NextOps /\ MarkedRead(books_store'))

AddPost(old, new, title, author, year, url, status) ==
    IF ValidUrl(url) /\ status = 200
    THEN /\ Len(new) = Len(old) + 1
         /\ SubSeq(new, 1, Len(old)) = old
         /\ new[Len(new)] = Book(title, author, year, Str_books \o << "/" >> \o Basename(url))
    ELSE new = old

\* C7: add_books appends exactly one record (the entered title, author and
\* year, the path books/<basename of the URL>) when the URL is valid and the
\* status is 200, and leaves books_store unchanged otherwise.
C7_AddOnlyOnSuccess ==
    last_call.op = "add_books"
       => AddPost(last_call.store, books_store, last_call.title, last_call.author,
                  last_call.year, last_call.path, last_call.status)

Reentered(input) == \E j \in 1..Len(input) : input[j] \notin Whitespace

EditPost(old, new, title, in_title, in_author, in_year, in_path) ==
    IF MatchesOf(old, title) = {} THEN new = old
    ELSE LET k == FirstMatch(old, title) IN
         /\ Len(new) = Len(old)
         /\ \A j \in 1..Len(old) : j # k => new[j] = old[j]
         /\ ~Reentered(in_title) => new[k].title = old[k].title
         /\ ~Reentered(in_author) => new[k].author = old[k].author
         /\ ~Reentered(in_year) => new[k].year = old[k].year
         /\ ~Reentered(in_path) => new[k].file_path = old[k].file_path

\* C8: edit_book changes only the re-entered fields of only the first record
\* with the given title: a field whose input is empty or whitespace keeps its
\* value, the other records, the length and the order are unchanged; with no
\* such record books_store is unchanged.
C8_EditFrame ==
    last_call.op = "edit_book"
       => EditPost(last_call.store, books_store, last_call.title, last_call.new_title,
                   last_call.author, last_call.year, last_call.path)

C8_Witness ==
    /\ last_call.op = "edit_book"
    /\ last_call.title = T_A
    /\ last_call.new_title = Blank
    /\ last_call.author = Padded(A_y)
    /\ last_call.year = Blank
    /\ last_call.path = << >>
    /\ last_call.store = << Book(T_A, A_x, << >>, PathPdf), Book(T_A, A_x, Y_2, PathPdf) >>
    /\ books_store = << Book(T_A, A_y, << >>, PathPdf), Book(T_A, A_x, Y_2, PathPdf) >>

\* C9: add_books, edit_book, remove_book, view_books, read_book and
\* export_as_csv leave books.json as it is, and when the menu loop has ended
\* through option 8 the array in books.json equals books_store.
C9_OnlySaveWrites ==
    /\ [][(choice' \in {"1", "2", "3", "4", "6", "7"} \/ pc = "reading")
             => books_json' = books_json]_vars
    /\ [](pc = "exited" => LET array == Persisted IN array.ok /\ array.val = books_store)

C9_Witness ==
    /\ pc = "exited"
    /\ Len(books_store) = 2
    /\ books_csv.exists
    /\ T_A \in DOMAIN txt_files

ExportPost(array, csv) ==
    /\ csv.exists
    /\ Len(csv.data) = Len(array) + 1
    /\ csv.data[1] = << KeyChars("title"), KeyChars("author"), KeyChars("year"),
                        KeyChars("file_path") >>
    /\ \A i \in 1..Len(array) :
          csv.data[i + 1] = << array[i].title, array[i].author, array[i].year,
                               array[i].file_path >>

\* C10: an export_as_csv that completes writes one row per record of the
\* array in books.json, in its order, under the header title, author, year,
\* file_path, whatever books_store holds, and leaves books_store unchanged.
C10_ExportsPersisted ==
    [][(choice' = "6" /\ pc' = "menu")
          => LET array == Persisted IN
             /\ array.ok
             /\ ExportPost(array.val, books_csv')
             /\ books_store' = books_store]_vars

C10_Witness ==
    /\ choice = "6"
    /\ pc = "menu"
    /\ Persisted.ok
    /\ Len(Persisted.val) = 1
    /\ Len(books_csv.data) = 2
    /\ Len(books_store) = 2
    /\ books_store[1].title = T_B

====
